---- MODULE Spec2Model ----
(***************************************************************************)
(* Model of the OrderSystem component (src/components/OrderSystem.tsx):    *)
(* the cart held in the orderItems state, the catalog load effect and the  *)
(* guarded, asynchronous order submission.                                 *)
(*                                                                         *)
(* The component is a React function component.  Its hook state is the     *)
(* variables menuItems .. successMessage.  Event handlers are closures     *)
(* created by a render: handleSubmitOrder reads orderItems, submitting and *)
(* user as they were when the component last rendered (variable rendered), *)
(* while the cart handlers use functional updaters and so act on the       *)
(* current state.  React re-renders synchronously at the end of every      *)
(* discrete UI event, so a handler step ends with the render; state set by *)
(* the continuation of an await is rendered by a later task (Render).      *)
(*                                                                         *)
(* Left out: the name and other display fields of a MenuItem, the          *)
(* timestamp of the order, console.error and the JSX layout.               *)
(***************************************************************************)
EXTENDS Integers, Sequences, FiniteSets, TLC

\* ---------------------------------------------------------------- bounds
MaxQty == 2         \* quantities stay <= MaxQty in the workflow specification
MaxCartQty == 3     \* and <= MaxCartQty in the specifications of the cart alone
MaxSubmits == 2     \* accepted submissions per behaviour

Ids == {1, 2}
Prices == {5, 7}
\* the items handleAddItem is called with: any id at any price
Items == [id : Ids, price : Prices]
\* the quantities updateQuantity is called with
QtyInputs(max) == {0 - 1, 0} \cup (1..max)
Users == {"u1"}
NoUser == "absent"
NULL == "null"

\* the failure a persistence call can end with: an object whose message is a
\* non-empty string, the empty string, or missing
NoMessage == "undefined"
Failures == {"network error", "", NoMessage}

LoadErrorText == "Failed to load menu items"
SubmitErrorText == "Failed to submit order"
SuccessText == "Order submitted successfully!"

\* what menuService.getMenuItems() can resolve with
Catalogs == { << [id |-> 1, price |-> 5], [id |-> 2, price |-> 7] >> }

VARIABLES
  menuItems,       \* useState<MenuItem[]>([])
  orderItems,      \* useState<OrderItem[]>([]): the cart, a sequence of lines
  loading,         \* useState(true)
  error,           \* useState<string | null>(null)
  submitting,      \* useState(false)
  successMessage,  \* useState<string | null>(null)
  user,            \* useAuth().user as of the last render
  rendered,        \* the state the last render captured for the handlers
  fetchPc,         \* position of fetchMenuItems: "awaiting" or "done"
  calls,           \* how many orders were handed to orderService.submitOrder
  inflight,        \* the orders whose submitOrder call has not resolved yet
  outcome,         \* outcome[i] of the i-th call: "pending", "ok" or "failed"
  uncaught,        \* TRUE once a rejection has escaped a handler
  last,            \* history: the operation of the last step and its arguments
  adds,            \* history: adds[id], the add calls for id since it was absent
  first,           \* history: first[id], the price carried by the first of them
  gone,            \* history: the line the last remove deleted, and whether an
                   \* add for its id has followed
  touched          \* history: the cart was changed since the call in flight
                   \* was issued

vars == << menuItems, orderItems, loading, error, submitting, successMessage,
           user, rendered, fetchPc, calls, inflight, outcome, uncaught, last,
           adds, first, gone, touched >>

\* ------------------------------------------------------- pure functions

HasLine(items, id) == \E i \in 1..Len(items) : items[i].id = id

LineOf(items, id) == items[CHOOSE i \in 1..Len(items) : items[i].id = id]

\* a variant of AddItem that takes the price of every add
AddItemReprices(prev, item) ==
  IF HasLine(prev, item.id)
    THEN [i \in 1..Len(prev) |->
            IF prev[i].id = item.id
              THEN [prev[i] EXCEPT !.quantity = @ + 1, !.price = item.price]
              ELSE prev[i]]
    ELSE Append(prev, [id |-> item.id, price |-> item.price, quantity |-> 1])

\* a variant of AddItem that never merges
AddItemAppends(prev, item) ==
  Append(prev, [id |-> item.id, price |-> item.price, quantity |-> 1])

\* the updater of handleAddItem
AddItem(prev, item) ==
  IF HasLine(prev, item.id)
    THEN [i \in 1..Len(prev) |->
            IF prev[i].id = item.id
              THEN [prev[i] EXCEPT !.quantity = @ + 1]
              ELSE prev[i]]
    ELSE Append(prev, [id |-> item.id, price |-> item.price, quantity |-> 1])

\* a variant of SetQuantity that inserts a line for an id the cart lacks
SetQuantityUpserts(prev, id, quantity) ==
  IF HasLine(prev, id)
    THEN [i \in 1..Len(prev) |->
            IF prev[i].id = id
              THEN [prev[i] EXCEPT !.quantity = quantity]
              ELSE prev[i]]
    ELSE Append(prev, [id |-> id, price |-> 0, quantity |-> quantity])

\* the updater of handleUpdateQuantity
SetQuantity(prev, id, quantity) ==
  [i \in 1..Len(prev) |->
     IF prev[i].id = id THEN [prev[i] EXCEPT !.quantity = quantity] ELSE prev[i]]

\* a variant of UpdateQuantity without the quantity < 1 return
UpdateQuantityUnguarded(prev, id, quantity) == SetQuantity(prev, id, quantity)

\* handleUpdateQuantity as a function of the cart
UpdateQuantity(prev, id, quantity) ==
  IF quantity < 1 THEN prev ELSE SetQuantity(prev, id, quantity)

\* a variant of RemoveItem that keeps the line with quantity 0
RemoveItemZeroes(prev, id) ==
  [i \in 1..Len(prev) |->
     IF prev[i].id = id THEN [prev[i] EXCEPT !.quantity = 0] ELSE prev[i]]

\* the updater of handleRemoveItem
IdDiffers(l, id) == l.id # id
RemoveItem(prev, id) == SelectSeq(prev, LAMBDA l : IdDiffers(l, id))

\* item.price * item.quantity and sum + ... are operations on JavaScript
\* numbers: binary floating point, rounded to nearest, ties to even.  The
\* significand of a number has 53 bits; the model keeps SignificandBits of
\* them, so that a rounding happens within the integers of the model.
SignificandBits == 6

RECURSIVE Pow2(_)
Pow2(n) == IF n = 0 THEN 1 ELSE 2 * Pow2(n - 1)

\* the spacing of the numbers around x >= 0
RECURSIVE Ulp(_, _)
Ulp(x, u) == IF x < Pow2(SignificandBits) * u THEN u ELSE Ulp(x, 2 * u)

\* the number nearest to the integer x >= 0
RoundNumber(x) ==
  LET u == Ulp(x, 1)
      q == x \div u
      r == x % u
  IN  IF 2 * r > u THEN (q + 1) * u
      ELSE IF 2 * r = u THEN (q + (q % 2)) * u
      ELSE q * u

\* calculateTotal over a list of lines: reduce from the left, from 0
RECURSIVE Total(_)
Total(items) ==
  IF items = << >> THEN 0
  ELSE RoundNumber(Total(SubSeq(items, 1, Len(items) - 1))
         + RoundNumber(items[Len(items)].price * items[Len(items)].quantity))

\* a variant of the guard of handleSubmitOrder without the test of the user
SubmitRejectedIgnoresUser(u, items, busy) == Len(items) = 0 \/ busy

\* variants of the guard: without the submitting test, without the
\* empty-cart test
SubmitRejectedIgnoresBusy(u, items, busy) == u = NoUser \/ Len(items) = 0
SubmitRejectedIgnoresEmpty(u, items, busy) == u = NoUser \/ busy

\* the guard of handleSubmitOrder, on the values its closure holds
SubmitRejected(u, items, busy) == u = NoUser \/ Len(items) = 0 \/ busy

\* a variant of ErrorText without the fallback
ErrorTextNoFallback(msg) == msg

\* err.message || 'Failed to submit order'
ErrorText(msg) == IF msg = NoMessage \/ msg = "" THEN SubmitErrorText ELSE msg

\* the order literal built by handleSubmitOrder; uuid stands for
\* crypto.randomUUID()
\* a variant of MakeOrder that gives every order the same id
MakeOrderFixedId(uuid, items, u) ==
  [id |-> 1, items |-> items, total |-> Total(items),
   status |-> "pending", userId |-> u]

MakeOrder(uuid, items, u) ==
  [id |-> uuid, items |-> items, total |-> Total(items),
   status |-> "pending", userId |-> u]

\* what a render captures
Snapshot(items, busy, load) ==
  [orderItems |-> items, submitting |-> busy, loading |-> load]

Op(name, id, n, msg) == [op |-> name, id |-> id, n |-> n, msg |-> msg]

\* no line: the value of gone.line before any remove
NoLine == [id |-> 0, price |-> 0, quantity |-> 0]
NothingGone == [line |-> NoLine, readded |-> FALSE]

\* ----------------------------------------------------------------- Init

Init ==
  /\ menuItems = << >>
  /\ orderItems = << >>
  /\ loading = TRUE
  /\ error = NULL
  /\ submitting = FALSE
  /\ successMessage = NULL
  /\ user \in Users \cup {NoUser}
  /\ rendered = Snapshot(<< >>, FALSE, TRUE)
  /\ fetchPc = "awaiting"
  /\ calls = 0
  /\ inflight = {}
  /\ outcome = << >>
  /\ uncaught = FALSE
  /\ last = Op("init", 0, 0, "")
  /\ adds = [id \in Ids |-> 0]
  /\ first = [id \in Ids |-> 0]
  /\ gone = NothingGone
  /\ touched = FALSE

\* -------------------------------------------------------------- actions

\* the children that call the handlers are mounted only by a render that
\* saw loading = false (line 94)
Mounted == rendered.loading = FALSE

\* fetchMenuItems: getMenuItems() resolved
FetchSuccess(items) ==
  /\ fetchPc = "awaiting"
  /\ menuItems' = items
  /\ loading' = FALSE
  /\ fetchPc' = "done"
  /\ last' = Op("fetchOk", 0, 0, "")
  /\ UNCHANGED << orderItems, error, submitting, successMessage, user,
                  rendered, calls, inflight, outcome, uncaught >>

\* a variant of FetchFailure without the finally block's setLoading(false)
FetchFailureStaysLoading ==
  /\ fetchPc = "awaiting"
  /\ error' = LoadErrorText
  /\ fetchPc' = "done"
  /\ last' = Op("fetchFail", 0, 0, "")
  /\ UNCHANGED << menuItems, orderItems, loading, submitting, successMessage,
                  user, rendered, calls, inflight, outcome, uncaught >>

\* fetchMenuItems: getMenuItems() rejected
FetchFailure ==
  /\ fetchPc = "awaiting"
  /\ error' = LoadErrorText
  /\ loading' = FALSE
  /\ fetchPc' = "done"
  /\ last' = Op("fetchFail", 0, 0, "")
  /\ UNCHANGED << menuItems, orderItems, submitting, successMessage, user,
                  rendered, calls, inflight, outcome, uncaught >>

\* React renders the state set outside a UI event
Render ==
  /\ rendered # Snapshot(orderItems, submitting, loading)
  /\ rendered' = Snapshot(orderItems, submitting, loading)
  /\ last' = Op("render", 0, 0, "")
  /\ UNCHANGED << menuItems, orderItems, loading, error, submitting,
                  successMessage, user, fetchPc, calls, inflight, outcome, uncaught >>

\* the session provider publishes another user; the component re-renders
SessionChange(u) ==
  /\ u # user
  /\ user' = u
  /\ rendered' = Snapshot(orderItems, submitting, loading)
  /\ last' = Op("session", 0, 0, "")
  /\ UNCHANGED << menuItems, orderItems, loading, error, submitting,
                  successMessage, fetchPc, calls, inflight, outcome, uncaught >>

\* a variant of handleAddItem that changes the array of lines in place: an
\* order built from that array changes with it
HandleAddItemInPlace(item) ==
  /\ Mounted
  /\ orderItems' = AddItem(orderItems, item)
  /\ inflight' = { IF o.items = orderItems
                     THEN [o EXCEPT !.items = orderItems'] ELSE o : o \in inflight }
  /\ rendered' = Snapshot(orderItems', submitting, loading)
  /\ last' = Op("add", item.id, item.price, "")
  /\ UNCHANGED << menuItems, loading, error, submitting, successMessage,
                  user, fetchPc, calls, outcome, uncaught >>

HandleAddItem(item) ==
  /\ Mounted
  /\ orderItems' = AddItem(orderItems, item)
  /\ rendered' = Snapshot(orderItems', submitting, loading)
  /\ last' = Op("add", item.id, item.price, "")
  /\ UNCHANGED << menuItems, loading, error, submitting, successMessage,
                  user, fetchPc, calls, inflight, outcome, uncaught >>

HandleUpdateQuantity(id, quantity) ==
  /\ Mounted
  /\ orderItems' = UpdateQuantity(orderItems, id, quantity)
  /\ rendered' = Snapshot(orderItems', submitting, loading)
  /\ last' = Op("update", id, quantity, "")
  /\ UNCHANGED << menuItems, loading, error, submitting, successMessage,
                  user, fetchPc, calls, inflight, outcome, uncaught >>

HandleRemoveItem(id) ==
  /\ Mounted
  /\ orderItems' = RemoveItem(orderItems, id)
  /\ rendered' = Snapshot(orderItems', submitting, loading)
  /\ last' = Op("remove", id, 0, "")
  /\ UNCHANGED << menuItems, loading, error, submitting, successMessage,
                  user, fetchPc, calls, inflight, outcome, uncaught >>

\* handleSubmitOrder returning at its guard
SubmitNoOp ==
  /\ Mounted
  /\ SubmitRejected(user, rendered.orderItems, rendered.submitting)
  /\ last' = Op("submit", 0, 0, "")
  /\ UNCHANGED << menuItems, orderItems, loading, error, submitting,
                  successMessage, user, rendered, fetchPc, calls, inflight,
                  outcome, uncaught >>

\* a variant of SubmitAccepted that issues the call without setSubmitting(true)
SubmitAcceptedNoFlag ==
  /\ Mounted
  /\ ~SubmitRejected(user, rendered.orderItems, rendered.submitting)
  /\ calls < MaxSubmits
  /\ error' = NULL
  /\ calls' = calls + 1
  /\ inflight' = inflight \cup {MakeOrder(calls + 1, rendered.orderItems, user)}
  /\ outcome' = Append(outcome, "pending")
  /\ rendered' = Snapshot(orderItems, submitting, loading)
  /\ last' = Op("submit", 0, 1, "")
  /\ UNCHANGED << menuItems, orderItems, loading, submitting, successMessage,
                  user, fetchPc, uncaught >>

\* a variant of SubmitAccepted without setError(null)
SubmitAcceptedKeepsError ==
  /\ Mounted
  /\ ~SubmitRejected(user, rendered.orderItems, rendered.submitting)
  /\ calls < MaxSubmits
  /\ submitting' = TRUE
  /\ calls' = calls + 1
  /\ inflight' = inflight \cup {MakeOrder(calls + 1, rendered.orderItems, user)}
  /\ outcome' = Append(outcome, "pending")
  /\ rendered' = Snapshot(orderItems, submitting', loading)
  /\ last' = Op("submit", 0, 1, "")
  /\ UNCHANGED << menuItems, orderItems, loading, error, successMessage, user,
                  fetchPc, uncaught >>

\* handleSubmitOrder up to its await
SubmitAccepted ==
  /\ Mounted
  /\ ~SubmitRejected(user, rendered.orderItems, rendered.submitting)
  /\ calls < MaxSubmits
  /\ submitting' = TRUE
  /\ error' = NULL
  /\ calls' = calls + 1
  /\ inflight' = inflight \cup {MakeOrder(calls + 1, rendered.orderItems, user)}
  /\ outcome' = Append(outcome, "pending")
  /\ rendered' = Snapshot(orderItems, submitting', loading)
  /\ last' = Op("submit", 0, 1, "")
  /\ UNCHANGED << menuItems, orderItems, loading, successMessage, user,
                  fetchPc, uncaught >>

\* a variant of SubmitResolved that leaves the cart as it is
SubmitResolvedKeepsCart(order) ==
  /\ order \in inflight
  /\ inflight' = inflight \ {order}
  /\ outcome' = [outcome EXCEPT ![order.id] = "ok"]
  /\ successMessage' = SuccessText
  /\ submitting' = FALSE
  /\ last' = Op("resolveOk", order.id, 0, "")
  /\ UNCHANGED << menuItems, orderItems, loading, error, user, rendered,
                  fetchPc, calls, uncaught >>

\* handleSubmitOrder after its await: submitOrder(order) resolved
SubmitResolved(order) ==
  /\ order \in inflight
  /\ inflight' = inflight \ {order}
  /\ outcome' = [outcome EXCEPT ![order.id] = "ok"]
  /\ orderItems' = << >>
  /\ successMessage' = SuccessText
  /\ submitting' = FALSE
  /\ last' = Op("resolveOk", order.id, 0, "")
  /\ UNCHANGED << menuItems, loading, error, user, rendered, fetchPc, calls,
                  uncaught >>

\* a variant of SubmitFailed that clears the cart as a success does
SubmitFailedClearsCart(order, msg) ==
  /\ order \in inflight
  /\ inflight' = inflight \ {order}
  /\ outcome' = [outcome EXCEPT ![order.id] = "failed"]
  /\ orderItems' = << >>
  /\ error' = ErrorText(msg)
  /\ submitting' = FALSE
  /\ last' = Op("resolveFail", order.id, 0, msg)
  /\ UNCHANGED << menuItems, loading, successMessage, user, rendered,
                  fetchPc, calls, uncaught >>

\* a variant of SubmitFailed without the finally block
SubmitFailedStaysBusy(order, msg) ==
  /\ order \in inflight
  /\ inflight' = inflight \ {order}
  /\ outcome' = [outcome EXCEPT ![order.id] = "failed"]
  /\ error' = ErrorText(msg)
  /\ last' = Op("resolveFail", order.id, 0, msg)
  /\ UNCHANGED << menuItems, orderItems, loading, submitting, successMessage,
                  user, rendered, fetchPc, calls, uncaught >>

\* handleSubmitOrder after its await: submitOrder(order) rejected with an
\* error whose message is msg
SubmitFailed(order, msg) ==
  /\ order \in inflight
  /\ inflight' = inflight \ {order}
  /\ outcome' = [outcome EXCEPT ![order.id] = "failed"]
  /\ error' = ErrorText(msg)
  /\ submitting' = FALSE
  /\ last' = Op("resolveFail", order.id, 0, msg)
  /\ UNCHANGED << menuItems, orderItems, loading, successMessage, user,
                  rendered, fetchPc, calls, uncaught >>

\* onClose of the Snackbar and of the Alert
DismissSuccess ==
  /\ Mounted
  /\ successMessage # NULL
  /\ successMessage' = NULL
  /\ rendered' = Snapshot(orderItems, submitting, loading)
  /\ last' = Op("dismiss", 0, 0, "")
  /\ UNCHANGED << menuItems, orderItems, loading, error, submitting, user,
                  fetchPc, calls, inflight, outcome, uncaught >>

\* the bound on quantities: an add is taken while the line is below max
Below(id, max) ==
  HasLine(orderItems, id) => LineOf(orderItems, id).quantity < max

\* MenuGrid: the items onSelectItem can be called with are the items of the
\* catalog it is given
Offered(items) == {items[i] : i \in 1..Len(items)}

\* the histories kept by the specifications of the cart alone
NoCount == UNCHANGED << adds, first, gone, touched >>

\* a step of a cart handler: touched records a change of the cart made while
\* a call is in flight
CartStep ==
  /\ touched' = (touched \/ (inflight # {} /\ orderItems' # orderItems))
  /\ UNCHANGED << adds, first, gone >>

\* the resolution of a call
Settled == touched' = FALSE /\ UNCHANGED << adds, first, gone >>

Next ==
  \/ \E items \in Catalogs : FetchSuccess(items) /\ NoCount
  \/ FetchFailure /\ NoCount
  \/ Render /\ NoCount
  \/ \E u \in Users \cup {NoUser} : SessionChange(u) /\ NoCount
  \/ \E item \in Offered(menuItems) :
        Below(item.id, MaxQty) /\ HandleAddItem(item) /\ CartStep
  \/ \E id \in Ids, q \in QtyInputs(MaxQty) :
        HandleUpdateQuantity(id, q) /\ CartStep
  \/ \E id \in Ids : HandleRemoveItem(id) /\ CartStep
  \/ SubmitNoOp /\ NoCount
  \/ SubmitAccepted /\ NoCount
  \/ \E order \in inflight : SubmitResolved(order) /\ Settled
  \/ \E order \in inflight, msg \in Failures :
        SubmitFailed(order, msg) /\ Settled
  \/ DismissSuccess /\ NoCount

Spec == Init /\ [][Next]_vars

\* React runs the render it has scheduled
FairSpec == Spec /\ WF_vars(Render /\ NoCount)

\* -------------------------------------------- the cart operations alone

\* the component once the catalog has loaded and been rendered
InitReady ==
  /\ menuItems \in Catalogs
  /\ orderItems = << >>
  /\ loading = FALSE
  /\ error = NULL
  /\ submitting = FALSE
  /\ successMessage = NULL
  /\ user \in Users \cup {NoUser}
  /\ rendered = Snapshot(<< >>, FALSE, FALSE)
  /\ fetchPc = "done"
  /\ calls = 0
  /\ inflight = {}
  /\ outcome = << >>
  /\ uncaught = FALSE
  /\ last = Op("render", 0, 0, "")
  /\ adds = [id \in Ids |-> 0]
  /\ first = [id \in Ids |-> 0]
  /\ gone = NothingGone
  /\ touched = FALSE

\* a remove call for id: gone records the line it finds
RecordRemove(id) ==
  /\ gone' = IF HasLine(orderItems, id)
               THEN [line |-> LineOf(orderItems, id), readded |-> FALSE]
               ELSE gone
  /\ UNCHANGED << adds, first, touched >>

\* an add call: gone records the first add for the id of the deleted line
RecordAdd(item) ==
  /\ gone' = IF gone.readded THEN NothingGone
             ELSE IF gone.line.id = item.id
                    THEN [gone EXCEPT !.readded = TRUE]
                    ELSE gone
  /\ UNCHANGED << adds, first, touched >>

\* add, updateQuantity and remove with items of any price
NextCart ==
  \/ \E item \in Items :
        Below(item.id, MaxCartQty) /\ HandleAddItem(item) /\ RecordAdd(item)
  \/ \E id \in Ids, q \in QtyInputs(MaxCartQty) :
        HandleUpdateQuantity(id, q) /\ NoCount
  \/ \E id \in Ids : HandleRemoveItem(id) /\ RecordRemove(id)

SpecCart == InitReady /\ [][NextCart]_vars

\* an add call, counted
CountedAdd(item) ==
  /\ Below(item.id, MaxCartQty)
  /\ HandleAddItem(item)
  /\ adds' = [adds EXCEPT ![item.id] = @ + 1]
  /\ first' = IF adds[item.id] = 0
                THEN [first EXCEPT ![item.id] = item.price]
                ELSE first
  /\ UNCHANGED << gone, touched >>

\* a remove call: the count for the id starts again
CountedRemove(id) ==
  /\ HandleRemoveItem(id)
  /\ adds' = [adds EXCEPT ![id] = 0]
  /\ first' = [first EXCEPT ![id] = 0]
  /\ UNCHANGED << gone, touched >>

\* sequences of add calls, with removes between them
NextAdds ==
  \/ \E item \in Items : CountedAdd(item)
  \/ \E id \in Ids : CountedRemove(id)

SpecAdds == InitReady /\ [][NextAdds]_vars

\* ------------------------------------------------- the total of a cart

\* carts of up to three lines whose prices differ by the whole significand
TotalIds == {1, 2, 3}
TotalPrices == {1, Pow2(SignificandBits)}
TotalItems == [id : TotalIds, price : TotalPrices]

NextTotal ==
  \/ \E item \in TotalItems :
        Below(item.id, MaxQty) /\ HandleAddItem(item) /\ NoCount
  \/ \E id \in TotalIds : HandleRemoveItem(id) /\ NoCount

SpecTotal == InitReady /\ [][NextTotal]_vars

\* ----------------------------------------------------------- properties

\* the program's own state: what a no-op must leave alone
progState == << menuItems, orderItems, loading, error, submitting,
                successMessage, user, fetchPc, calls, inflight, outcome,
                uncaught >>

\* C1: at most one persistence call is in flight in every state, and a submit
\* made while a call is in flight (also right after the submit that issued
\* it) is a no-op: it issues no call and changes nothing.
C1_SingleFlight ==
  [][ /\ Cardinality(inflight') <= 1
      /\ (last'.op = "submit" /\ inflight # {})
           => (calls' = calls /\ inflight' = inflight /\ UNCHANGED progState)
    ]_vars

\* C1 witness: a submit was rejected while the one call issued so far is in
\* flight, though a user is present and the cart is not empty.
C1_Witness ==
  /\ last.op = "submit" /\ last.n = 0
  /\ Cardinality(inflight) = 1 /\ calls = 1
  /\ user # NoUser /\ orderItems # << >>

\* C2: every line of the cart has quantity >= 1 and no two lines have the
\* same id, whatever add, updateQuantity, remove and submissions have done.
C2_CartInvariant ==
  /\ \A i \in 1..Len(orderItems) : orderItems[i].quantity >= 1
  /\ \A i, j \in 1..Len(orderItems) :
       orderItems[i].id = orderItems[j].id => i = j

\* C2 witness: after a successful submission cleared the cart, it holds two
\* lines again, one of them added more than once.
C2_Witness ==
  /\ \E k \in 1..Len(outcome) : outcome[k] = "ok"
  /\ Len(orderItems) = 2
  /\ \E i \in 1..Len(orderItems) : orderItems[i].quantity = MaxQty

\* C3: right after the persistence call of an accepted submit succeeded the
\* cart is empty, the success notification is published and SubmissionState
\* is idle.
C3_SuccessClears ==
  last.op = "resolveOk" =>
    /\ orderItems = << >>
    /\ successMessage = SuccessText /\ successMessage # NULL
    /\ submitting = FALSE

\* C3 witness: a call resolved with success for an order that held lines.
C3_Witness ==
  /\ last.op = "resolveOk"
  /\ rendered.orderItems # << >>
  /\ rendered.submitting

\* C4: handling the failure of a persistence call leaves the cart exactly as
\* it was and publishes no success notification.
C4_FailureKeepsCart ==
  [][ last'.op = "resolveFail"
        => (orderItems' = orderItems /\ successMessage' = successMessage)
    ]_vars

\* C4 witness: a call failed while the cart held two lines.
C4_Witness == last.op = "resolveFail" /\ Len(orderItems) = 2

\* C5: right after a persistence call failed the error slot holds the
\* failure's message, or the generic message when the failure has none, and
\* no rejection has escaped the handler.
C5_FailureReported ==
  last.op = "resolveFail" =>
    /\ error = (IF last.msg \in {NoMessage, ""}
                  THEN "Failed to submit order" ELSE last.msg)
    /\ ~uncaught

\* C5 witness: a failure without a message was reported with the generic one.
C5_Witness ==
  /\ last.op = "resolveFail" /\ last.msg = NoMessage
  /\ error = "Failed to submit order"

C7_GuardedNoOp ==
  [][ (last'.op = "submit" /\ (user = NoUser \/ orderItems = << >> \/ submitting))
        => UNCHANGED progState
    ]_vars

\* C7 witness: a submit with an empty cart was rejected while a user was
\* present and nothing was being submitted.
C7_Witness ==
  /\ last.op = "submit" /\ last.n = 0
  /\ orderItems = << >> /\ user # NoUser
  /\ ~submitting /\ ~rendered.submitting

\* C8: whenever a persistence call is in flight, SubmissionState is
\* submitting, in the state and in what a submit call observes.
C8_SubmittingFirst ==
  inflight # {} => (submitting /\ rendered.submitting)

\* C8 witness: a call is in flight and the cart was changed since it was
\* issued.
C8_Witness ==
  /\ inflight # {} /\ last.op = "add"
  /\ rendered.submitting

\* C9: after n >= 1 add calls for an id since it was last absent, whatever
\* prices the later adds carried and whatever was added for other ids, the
\* cart holds exactly one line for the id, with quantity n and the price of
\* the first add.
C9_AddMerges ==
  \A id \in Ids :
    adds[id] >= 1 =>
      /\ Cardinality({i \in 1..Len(orderItems) : orderItems[i].id = id}) = 1
      /\ LineOf(orderItems, id).quantity = adds[id]
      /\ LineOf(orderItems, id).price = first[id]

\* C9 witness: id 1 was added MaxCartQty times, the last time at a price
\* other than the first, with a line for id 2 in the cart.
C9_Witness ==
  /\ adds[1] = MaxCartQty /\ adds[2] >= 1
  /\ last.op = "add" /\ last.id = 1 /\ last.n # first[1]

\* C10: updateQuantity(id, q) with q < 1 leaves the whole cart unchanged,
\* also when repeated; with q >= 1 and a line for id it sets that line's
\* quantity to q and leaves its price and every other line unchanged.
C10_UpdateQuantity ==
  [][ last'.op = "update" =>
        /\ last'.n < 1 =>
             /\ orderItems' = orderItems
             /\ UpdateQuantity(orderItems', last'.id, last'.n) = orderItems
        /\ (last'.n >= 1 /\ HasLine(orderItems, last'.id)) =>
             /\ Len(orderItems') = Len(orderItems)
             /\ \A i \in 1..Len(orderItems) :
                  orderItems'[i] =
                    IF orderItems[i].id = last'.id
                      THEN [id |-> orderItems[i].id,
                            price |-> orderItems[i].price,
                            quantity |-> last'.n]
                      ELSE orderItems[i]
    ]_vars

\* C10 witness: updateQuantity was called with a quantity below 1 for a line
\* of a cart of two lines.
C10_Witness ==
  /\ last.op = "update" /\ last.n < 1
  /\ HasLine(orderItems, last.id) /\ Len(orderItems) = 2

\* C11: updateQuantity and remove for an id that has no line leave the cart
\* unchanged and raise nothing; remove for an id that has a line deletes that
\* line and leaves every other line as it was, in the same order.
C11_AbsentIdNoOp ==
  [][ /\ (last'.op \in {"update", "remove"} /\ ~HasLine(orderItems, last'.id))
           => (orderItems' = orderItems /\ ~uncaught')
      /\ (last'.op = "remove" /\ HasLine(orderItems, last'.id))
           => LET k == CHOOSE i \in 1..Len(orderItems) :
                         orderItems[i].id = last'.id
              IN /\ Len(orderItems') = Len(orderItems) - 1
                 /\ \A i \in 1..Len(orderItems') :
                      orderItems'[i] = orderItems[IF i < k THEN i ELSE i + 1]
    ]_vars

\* C11 witness: updateQuantity was called with a quantity >= 1 for an id that
\* has no line, on a cart that holds a line of another id.
C11_Witness ==
  /\ last.op = "update" /\ last.n >= 1
  /\ ~HasLine(orderItems, last.id) /\ Len(orderItems) = 1

\* C12: when remove(id) deleted a line, of any quantity and price, the next
\* add for that id leaves exactly one line for the id, with quantity 1 and
\* the price of the item passed to that add.
C12_RemoveThenAdd ==
  (last.op = "add" /\ gone.readded) =>
    /\ gone.line.id = last.id
    /\ Cardinality({i \in 1..Len(orderItems) : orderItems[i].id = last.id}) = 1
    /\ LineOf(orderItems, last.id) =
         [id |-> last.id, price |-> last.n, quantity |-> 1]

\* C12 witness: a line with quantity MaxCartQty was removed and its id added
\* again at another price.
C12_Witness ==
  /\ last.op = "add" /\ gone.readded
  /\ gone.line.quantity = MaxCartQty /\ gone.line.price # last.n
  /\ Len(orderItems) = 2

\* the sum of price x quantity over the lines of a cart, taken id by id
ValueOf(items, id) ==
  IF HasLine(items, id)
    THEN LineOf(items, id).price * LineOf(items, id).quantity
    ELSE 0

RECURSIVE SumOver(_, _)
SumOver(items, ids) ==
  IF ids = {} THEN 0
  ELSE LET id == CHOOSE x \in ids : TRUE
       IN ValueOf(items, id) + SumOver(items, ids \ {id})

\* the lines of a cart in the opposite order
Reversed(items) == [i \in 1..Len(items) |-> items[Len(items) + 1 - i]]

\* C13: the total of the cart the component rendered is the sum of
\* price x quantity over its lines, 0 for the empty cart, and the same for
\* the same lines in the opposite order.
C13_Total ==
  /\ Total(rendered.orderItems) = SumOver(rendered.orderItems, TotalIds)
  /\ rendered.orderItems = << >> => Total(rendered.orderItems) = 0
  /\ Total(Reversed(rendered.orderItems)) = Total(rendered.orderItems)


\* C14: the Order an accepted submit hands to persistence has the lines of
\* the cart at the moment of the submit as its items, the total of those items
\* as its total, the status pending, the id of the current user as its userId,
\* and an id that no earlier order had, an order whose call failed included.
C14_OrderHanded ==
  [][ (last'.op = "submit" /\ last'.n = 1) =>
        \E o \in inflight' :
          /\ o \notin inflight
          /\ inflight' = inflight \cup {o}
          /\ o.items = orderItems
          /\ o.total = Total(o.items)
          /\ o.status = "pending"
          /\ user \in Users /\ o.userId = user
          /\ o.id \notin DOMAIN outcome
          /\ DOMAIN outcome' = DOMAIN outcome \cup {o.id}
    ]_vars

\* C14 witness: an order of two lines was handed over after the call of an
\* earlier order had failed.
C14_Witness ==
  /\ last.op = "submit" /\ last.n = 1
  /\ Len(outcome) = 2 /\ outcome[1] = "failed"
  /\ \E o \in inflight : o.id = 2 /\ Len(o.items) = 2 /\ o.items = orderItems

C16_LoadLifecycle ==
  /\ [](fetchPc = "awaiting" => (loading /\ menuItems = << >> /\ error = NULL))
  /\ [](last.op = "fetchOk" =>
          (menuItems \in Catalogs /\ ~loading /\ error = NULL))
  /\ [](last.op = "fetchFail" =>
          (menuItems = << >> /\ error = LoadErrorText /\ ~loading))
  /\ [](~uncaught)
  /\ [][ /\ ~loading => ~loading'
         /\ fetchPc = "done" => (fetchPc' = "done" /\ menuItems' = menuItems)
         /\ loading' # loading => last'.op \in {"fetchOk", "fetchFail"}
     ]_vars

\* C16 witness: the fetch failed and the component has rendered, without
\* spinner, an empty catalog.
C16_Witness ==
  /\ last.op = "render"
  /\ fetchPc = "done" /\ menuItems = << >>
  /\ error = LoadErrorText
  /\ ~loading /\ ~rendered.loading

\* C17: SubmissionState starts idle; it becomes submitting only by a submit
\* called with a user present, a non-empty cart and SubmissionState idle, and
\* idle again only by the resolution, success or failure, of the call in
\* flight; no add, updateQuantity, remove, dismissal, rejected submit or other
\* step changes it.
C17_SubmissionState ==
  /\ [](last.op = "init" => ~submitting)
  /\ [][ /\ (~submitting /\ submitting') =>
              /\ last'.op = "submit" /\ last'.n = 1
              /\ user # NoUser /\ orderItems # << >>
              /\ Cardinality(inflight') = Cardinality(inflight) + 1
         /\ (submitting /\ ~submitting') =>
              /\ last'.op \in {"resolveOk", "resolveFail"}
              /\ \E o \in inflight : o.id = last'.id /\ inflight' = inflight \ {o}
         /\ (last'.op \in {"add", "update", "remove", "dismiss"}
               \/ (last'.op = "submit" /\ last'.n = 0)) =>
              submitting' = submitting
     ]_vars

\* C17 witness: the success notification of an earlier order is dismissed
\* while the call of the next order is in flight.
C17_Witness ==
  /\ last.op = "dismiss"
  /\ submitting
  /\ Len(outcome) = 2 /\ outcome[1] = "ok" /\ outcome[2] = "pending"

\* C18: an add, updateQuantity or remove call made while a persistence call
\* is in flight leaves the Order handed to the persistence collaborator as it
\* was: the same items, the same total, and the same other fields.
C18_OrderImmutable ==
  [][ (last'.op \in {"add", "update", "remove"} /\ inflight # {}) =>
        /\ inflight' = inflight
        /\ \A o \in inflight' : o.total = Total(o.items)
    ]_vars

\* C18 witness: an add has changed the cart while an order is in flight, and
\* the order has the lines and the total of the cart as it was.
C18_Witness ==
  /\ last.op = "add"
  /\ touched
  /\ \E o \in inflight :
       /\ Len(o.items) = 1 /\ Len(orderItems) = 2
       /\ o.items[1] = orderItems[1]
       /\ o.total < Total(orderItems)

\* C19: every line, id and quantity, that the clear of a successful
\* submission takes out of the cart is a line of the Order handed to the
\* persistence collaborator, whatever add, updateQuantity or remove calls
\* came between the submit and the resolution.
C19_NothingDiscarded ==
  [][ last'.op = "resolveOk" =>
        \E o \in inflight :
          /\ o.id = last'.id
          /\ \A i \in 1..Len(orderItems) :
               \/ \E k \in 1..Len(orderItems') : orderItems'[k] = orderItems[i]
               \/ \E j \in 1..Len(o.items) :
                    /\ o.items[j].id = orderItems[i].id
                    /\ o.items[j].quantity = orderItems[i].quantity
    ]_vars

\* C20: an accepted submit empties the error slot before the call is issued
\* and the slot stays empty while the call is in flight, so the slot is empty
\* when the call resolves with success, and the error in the slot after a
\* failure is the error of that call.
C20_ErrorCleared ==
  /\ [](inflight # {} => error = NULL)
  /\ [][ /\ (last'.op = "submit" /\ last'.n = 1) =>
              (error' = NULL /\ inflight' # inflight)
         /\ last'.op = "resolveOk" => (error = NULL /\ error' = NULL)
         /\ last'.op = "resolveFail" =>
              (error = NULL /\ error' = ErrorText(last'.msg))
     ]_vars

\* C20 witness: the call of the second order succeeded after the call of the
\* first had failed with a message.
C20_Witness ==
  /\ last.op = "resolveOk"
  /\ Len(outcome) = 2 /\ outcome[1] = "failed" /\ outcome[2] = "ok"
  /\ error = NULL
====
